---- MODULE Spec2Model ----
(***************************************************************************)
(* Substation DSL front end: the tree-to-IR transformer of dsl/parser.py   *)
(* (class ToIR, function parse) and the semantic validator of              *)
(* dsl/validator.py (function validate).                                   *)
(*                                                                         *)
(* Python values are modelled as tagged records of one shape, so that the  *)
(* validator's isinstance tests and dictionary lookups can be applied to   *)
(* whatever value a collection happens to hold:                            *)
(*   tag  "None" | "str" | "float" | "dict" | "list" | "tuple"             *)
(*   k    the single key of a terminal dict ("OPEN_END" / "STUB")          *)
(*   s    the string payload (a str, or the label of a STUB)               *)
(*   n    the numeric payload (a float holding a whole number)             *)
(* kv values are whole numbers of kilovolts: for whole numbers the double  *)
(* arithmetic of validator.py line 39 is exact, so                         *)
(*   abs(kva-kvb) > 0.15*max(kva,kvb)  <=>  20*|kva-kvb| > 3*max(kva,kvb). *)
(***************************************************************************)
EXTENDS Integers, Sequences, FiniteSets, TLC

VARIABLES
    tx,       \* ToIR.ir of the running parse call: [objects, series, pages, style]
    status,   \* "parsing" | "transform" | "returned" | "raised" | "direct"
    err,      \* the exception that ended the parse call
    ir,       \* <<>>, or <<the IR the caller holds>> (parse's return value, or one built directly)
    vres,     \* outcome of validate(ir), NotRun before the call
    text,     \* the text of the running parse call, line by line
    pc,       \* the line of the script the transformer visits next
    peer      \* a second parse call, suspended: [id, tx, status, err, ir, text, pc]

vars == <<tx, status, err, ir, vres>>

\* the variables of the second call and of the scripts
callvars == <<text, pc, peer>>

allvars == <<vars, callvars>>

----------------------------------------------------------------------------
(* Bounds *)

\* objects, pages, chains and chain elements the IR of one parse call may hold
MaxIR == 4

\* chains plus chain elements of an IR built directly for the validator
MaxSeries == 6

----------------------------------------------------------------------------
(* Python values *)

PyNone == [tag |-> "None", k |-> "", s |-> "", n |-> 0]

PyStr(x) == [tag |-> "str", k |-> "", s |-> x, n |-> 0]

PyNum(x) == [tag |-> "float", k |-> "", s |-> "", n |-> x]

\* a list object met as an element of another collection (unhashable)
PyListObj == [tag |-> "list", k |-> "", s |-> "", n |-> 0]

\* a (line, column) tuple met as an element of another collection (hashable)
PyTupleObj == [tag |-> "tuple", k |-> "", s |-> "", n |-> 0]

\* ToIR.OPEN_END: {"OPEN_END": True}
OPEN_END == [tag |-> "dict", k |-> "OPEN_END", s |-> "", n |-> 1]

\* ToIR.stub_obj: {"STUB": s}
stub_obj(label) == [tag |-> "dict", k |-> "STUB", s |-> label, n |-> 0]

\* Python truthiness of a value: None, "" and 0.0 are falsy
Truthy(v) ==
    CASE v.tag = "None" -> FALSE
      [] v.tag = "str" -> v.s # ""
      [] v.tag = "float" -> v.n # 0
      [] OTHER -> TRUE

\* hash(v) succeeds: lists and dicts are unhashable
Hashable(v) == v.tag \notin {"list", "dict"}

----------------------------------------------------------------------------
(* Ordered dictionaries: a sequence of [key, val] in insertion order *)

Range(f) == {f[i] : i \in DOMAIN f}

Keys(d) == {d[i].key : i \in DOMAIN d}

\* dict.get(key): the value, or None
DictGet(d, key) ==
    IF key \in Keys(d)
    THEN (CHOOSE e \in Range(d) : e.key = key).val
    ELSE PyNone

\* d[key] = val: replaces the value in place, or appends a new key
DictSet(d, key, val) ==
    IF key \in Keys(d)
    THEN [i \in DOMAIN d |-> IF d[i].key = key THEN [key |-> key, val |-> val] ELSE d[i]]
    ELSE Append(d, [key |-> key, val |-> val])

\* d.update(other): assigns other's items in other's order
RECURSIVE DictUpdate(_, _)
DictUpdate(d, other) ==
    IF other = <<>> THEN d
    ELSE DictUpdate(DictSet(d, Head(other).key, Head(other).val), Tail(other))

\* mutant: the extension block wins on a key collision
merge_front_extra_wins(kvs_main, kvs_extra) ==
    IF kvs_extra = <<>> THEN kvs_main
    ELSE DictUpdate(kvs_main, kvs_extra)

\* mutant: the extension block is dropped
merge_front_drops_extra(kvs_main, kvs_extra) == kvs_main

\* an absent extension block (None) and an empty one are both falsy: both are <<>>
_merge_front(kvs_main, kvs_extra) ==
    IF kvs_extra = <<>> THEN kvs_main
    ELSE DictUpdate(kvs_extra, kvs_main)

KV(key, val) == [key |-> key, val |-> val]

----------------------------------------------------------------------------
(* IR types (parser.py) *)

\* IR(): every collection empty
EmptyIR == [objects |-> <<>>, series |-> <<>>, pages |-> <<>>, style |-> <<>>]

\* ObjectIR(id, type, attrs, loc); the table is a dict keyed by id, kept here in
\* insertion order
ObjectIR(oid, typ, attrs, loc) == [id |-> oid, type |-> typ, attrs |-> attrs, loc |-> loc]

PageIR(pid, attrs, loc) == [id |-> pid, attrs |-> attrs, loc |-> loc]

ObjectIds(objects) == {objects[i].id : i \in DOMAIN objects}

\* mutant: a new key is put before the existing ones
TablePut_front(table, o) ==
    IF o.id \in ObjectIds(table)
    THEN [i \in DOMAIN table |-> IF table[i].id = o.id THEN o ELSE table[i]]
    ELSE <<o>> \o table

\* objects[oid] = o on a dict: a new key goes last, an existing key keeps its place
TablePut(table, o) ==
    IF o.id \in ObjectIds(table)
    THEN [i \in DOMAIN table |-> IF table[i].id = o.id THEN o ELSE table[i]]
    ELSE Append(table, o)

\* chains plus chain elements held by a chain list
RECURSIVE SeriesSize(_)
SeriesSize(series) ==
    IF series = <<>> THEN 0
    ELSE 1 + Len(Head(series).items) + SeriesSize(Tail(series))

\* objects, pages, chains and chain elements held by an IR
IRSize(v) == Len(v.objects) + Len(v.pages) + SeriesSize(v.series)

NoErr == [type |-> "", what |-> "", id |-> "", typ |-> "", line |-> 0]

ValueError(what, oid, typ, line) ==
    [type |-> "ValueError", what |-> what, id |-> oid, typ |-> typ, line |-> line]

Res(code, a, b, kva, kvb) == [code |-> code, a |-> a, b |-> b, kva |-> kva, kvb |-> kvb]

NotRun == Res("NOT_RUN", "", "", 0, 0)

\* no second parse call is in progress
NoCall == [id |-> 0, tx |-> EmptyIR, status |-> "none", err |-> NoErr, ir |-> <<>>,
           text |-> <<>>, pc |-> 1]

----------------------------------------------------------------------------
(* Inputs the syntax tree can carry *)

\* meta.line, meta.column of a statement
Locs == {<<1, 1>>, <<2, 5>>}

\* the id slot of an ADD_* statement as the *_params handlers return it
IdInputs == {PyNone, PyStr(""), PyStr("a"), PyStr("b")}

KvInputs == {PyNum(138)}

\* the optional extension block (opt_kvs), absent or carrying a colliding key
ExtraInputs == {<<>>, <<KV("note", PyStr("x")), KV("id", PyStr("b"))>>}

\* elements of a CONNECT list
ConnectItems == {PyStr("a"), PyStr("b"), OPEN_END}

\* the lists of at most n elements of S
ListsUpTo(S, n) == UNION {[1..m -> S] : m \in 0..n}

PageIds == {"p1"}

----------------------------------------------------------------------------
(* ADD_<KIND> handlers: build ("OBJ", TYPE, kvs, loc) *)

Item(typ, kvs, loc) == [kind |-> "OBJ", typ |-> typ, kvs |-> kvs, loc |-> loc]

\* mutant: the item of an ADD_BUS statement is labelled with another kind
add_bus_as_breaker(id_value, kv_value, extra, loc) ==
    LET kvs == <<KV("id", id_value), KV("kv", kv_value)>>
    IN  Item("BREAKER", IF extra # <<>> THEN _merge_front(kvs, extra) ELSE kvs, loc)

add_bus(id_value, kv_value, extra, loc) ==
    LET kvs == <<KV("id", id_value), KV("kv", kv_value)>>
    IN  Item("BUS", IF extra # <<>> THEN _merge_front(kvs, extra) ELSE kvs, loc)

add_breaker(id_value, kv_value, extra, loc) ==
    LET kvs == <<KV("id", id_value), KV("kv", kv_value),
                 KV("interrupting_kA", PyNum(40)), KV("type", PyStr("SF6")),
                 KV("continuous_A", PyNum(2000))>>
    IN  Item("BREAKER", IF extra # <<>> THEN _merge_front(kvs, extra) ELSE kvs, loc)

add_line(id_value, kv_value, extra, loc) ==
    LET kvs == <<KV("id", id_value), KV("kv", kv_value), KV("type", PyStr("OHL")),
                 KV("length_km", PyNum(10)), KV("thermal_A", PyNum(1000))>>
    IN  Item("LINE", IF extra # <<>> THEN _merge_front(kvs, extra) ELSE kvs, loc)

----------------------------------------------------------------------------
(* Statement handlers of ToIR; an exception ends the parse call *)

\* mutant: parse swallows the exception and returns the IR built so far
Raise_returns_partial(e) ==
    /\ status' = "returned"
    /\ err' = e
    /\ ir' = <<tx>>
    /\ UNCHANGED <<tx, vres>>

\* raise: the exception leaves the handler, the transformer and parse (parse
\* catches UnexpectedInput only), so the call returns nothing
Raise(e) ==
    /\ status' = "raised"
    /\ err' = e
    /\ UNCHANGED <<tx, ir, vres>>

\* the statements of a script are handled in source order, so the line of a
\* statement is not before the line of any entry the IR already holds
At(loc) ==
    /\ status = "transform"
    /\ \A e \in Range(tx.objects) \cup Range(tx.series) \cup Range(tx.pages) : loc[1] >= e.loc[1]

\* mutant: no duplicate check, the later object replaces the earlier
add_stmt_overwrite(item) ==
    /\ At(item.loc)
    /\ LET oid == DictGet(item.kvs, "id")
       IN  IF ~Truthy(oid)
           THEN Raise(ValueError("Missing id", "", item.typ, item.loc[1]))
           ELSE /\ oid.s \in ObjectIds(tx.objects) \/ IRSize(tx) + 1 <= MaxIR
                /\ tx' = [tx EXCEPT !.objects =
                              TablePut(@, ObjectIR(oid.s, item.typ, item.kvs, item.loc))]
                /\ UNCHANGED <<status, err, ir, vres>>

\* add_stmt: register the object built by an add_* handler
add_stmt(item) ==
    /\ At(item.loc)
    /\ LET oid == DictGet(item.kvs, "id")
       IN  IF ~Truthy(oid)
           THEN Raise(ValueError("Missing id", "", item.typ, item.loc[1]))
           ELSE IF oid.s \in ObjectIds(tx.objects)
           THEN Raise(ValueError("Duplicate id", oid.s, "", item.loc[1]))
           ELSE /\ IRSize(tx) + 1 <= MaxIR
                /\ tx' = [tx EXCEPT !.objects =
                              TablePut(@, ObjectIR(oid.s, item.typ, item.kvs, item.loc))]
                /\ UNCHANGED <<status, err, ir, vres>>

ADD_BUS(id_value, kv_value, extra, loc) == add_stmt(add_bus(id_value, kv_value, extra, loc))

ADD_BREAKER(id_value, kv_value, extra, loc) ==
    add_stmt(add_breaker(id_value, kv_value, extra, loc))

ADD_LINE(id_value, kv_value, extra, loc) == add_stmt(add_line(id_value, kv_value, extra, loc))

\* mutant: the chain is put before the chains already in the list
connect_stmt_prepends(series_list, loc) ==
    /\ At(loc)
    /\ IRSize(tx) + 1 + Len(series_list) <= MaxIR
    /\ tx' = [tx EXCEPT !.series =
                  <<[tag |-> "tuple", items |-> series_list, loc |-> loc]>> \o @]
    /\ UNCHANGED <<status, err, ir, vres>>

\* connect_stmt: append (series_list, (line, column))
connect_stmt(series_list, loc) ==
    /\ At(loc)
    /\ IRSize(tx) + 1 + Len(series_list) <= MaxIR
    /\ tx' = [tx EXCEPT !.series =
                  Append(@, [tag |-> "tuple", items |-> series_list, loc |-> loc])]
    /\ UNCHANGED <<status, err, ir, vres>>

\* page_stmt: pages[pid] = PageIR(...), a later page of the same id replaces the earlier
page_stmt(pid, loc) ==
    /\ At(loc)
    /\ pid \in {pg.id : pg \in Range(tx.pages)} \/ IRSize(tx) + 1 <= MaxIR
    /\ LET kvs == <<KV("id", PyStr(pid)), KV("title", PyStr("t")),
                    KV("voltage_scope", PyListObj), KV("buses", PyListObj),
                    KV("bays", PyListObj)>>
       IN  tx' = [tx EXCEPT !.pages = TablePut(@, PageIR(pid, kvs, loc))]
    /\ UNCHANGED <<status, err, ir, vres>>

style_stmt(loc) == At(loc) /\ UNCHANGED vars

\* mutant: LABEL registers an object of its own
label_stmt_registers(loc) ==
    /\ At(loc)
    /\ tx' = [tx EXCEPT !.objects = TablePut(@, ObjectIR("label", "LABEL", <<>>, loc))]
    /\ UNCHANGED <<status, err, ir, vres>>

label_stmt(loc) == At(loc) /\ UNCHANGED vars

layout_stmt(loc) == At(loc) /\ UNCHANGED vars

\* mutant: VALIDATE runs the breaker rule on the IR built so far
validate_stmt_runs_rule(loc) ==
    /\ At(loc)
    /\ IF \E o \in Range(tx.objects) :
             o.type = "BREAKER" /\ \A e \in Range(tx.series) : PyStr(o.id) \notin Range(e.items)
       THEN Raise(ValueError("E.PROT.BRK_UNUSED", "", "", loc[1]))
       ELSE UNCHANGED vars

validate_stmt(loc) == At(loc) /\ UNCHANGED vars

emit_stmt(loc) == At(loc) /\ UNCHANGED vars

\* parse, lines 791-793: the transform ran to its end and parse returns tx.ir
parse_return ==
    /\ status = "transform"
    /\ status' = "returned"
    /\ ir' = <<tx>>
    /\ UNCHANGED <<tx, err, vres>>

----------------------------------------------------------------------------
(* validator.py *)

OK == Res("OK", "", "", 0, 0)

\* an exception other than DSLValidationError leaving validate
TypeError == Res("TypeError", "", "", 0, 0)

DSLValidationError(code) == Res(code, "", "", 0, 0)

\* what iterating a chain-list entry yields: a list yields its elements, the
\* (series_list, loc) tuple stored by connect_stmt yields the list and the loc tuple
Elems(entry) ==
    IF entry.tag = "list" THEN entry.items ELSE <<PyListObj, PyTupleObj>>

\* isinstance(itm, dict)
IsDict(v) == v.tag = "dict"

\* ir.objects.get(key) for a hashable key: <<>> for None, else <<the object>>
ObjectsGet(objects, key) ==
    IF key.tag = "str" /\ key.s \in ObjectIds(objects)
    THEN <<CHOOSE o \in Range(objects) : o.id = key.s>>
    ELSE <<>>

\* mutant: the difference is taken with its sign, without abs
Exceeds_signed(kva, kvb) ==
    LET max == IF kva >= kvb THEN kva ELSE kvb
    IN  20 * (kva - kvb) > 3 * max

\* mutant: the threshold itself is a mismatch
Exceeds_or_equal(kva, kvb) ==
    LET diff == IF kva >= kvb THEN kva - kvb ELSE kvb - kva
        max  == IF kva >= kvb THEN kva ELSE kvb
    IN  20 * diff >= 3 * max

\* line 39: abs(kva-kvb) > 0.15*max(kva, kvb), on whole numbers
Exceeds(kva, kvb) ==
    LET diff == IF kva >= kvb THEN kva - kvb ELSE kvb - kva
        max  == IF kva >= kvb THEN kva ELSE kvb
    IN  20 * diff > 3 * max

\* mutant: pairs with a BUS or a TRANSFORMER are compared too
VoltPair_no_kind_skip(objects, a, b) ==
    IF IsDict(a) \/ IsDict(b) THEN OK
    ELSE IF ~Hashable(a) \/ ~Hashable(b) THEN TypeError
    ELSE LET oa == ObjectsGet(objects, a)
             ob == ObjectsGet(objects, b)
         IN  IF oa = <<>> \/ ob = <<>> THEN OK
             ELSE LET kva == DictGet(oa[1].attrs, "kv")
                      kvb == DictGet(ob[1].attrs, "kv")
                  IN  IF kva.tag = "None" \/ kvb.tag = "None" THEN OK
                      ELSE IF kva.tag # "float" \/ kvb.tag # "float" THEN TypeError
                      ELSE IF Exceeds(kva.n, kvb.n)
                           THEN Res("E.VOLT.MISMATCH", a.s, b.s, kva.n, kvb.n)
                           ELSE OK

\* lines 31-41 for one adjacent pair: OK stands for "no exception, go on"
VoltPair(objects, a, b) ==
    IF IsDict(a) \/ IsDict(b) THEN OK
    ELSE IF ~Hashable(a) \/ ~Hashable(b) THEN TypeError
    ELSE LET oa == ObjectsGet(objects, a)
             ob == ObjectsGet(objects, b)
         IN  IF oa = <<>> \/ ob = <<>> THEN OK
             ELSE IF {"TRANSFORMER", "BUS"} \cap {oa[1].type, ob[1].type} # {} THEN OK
             ELSE LET kva == DictGet(oa[1].attrs, "kv")
                      kvb == DictGet(ob[1].attrs, "kv")
                  IN  IF kva.tag = "None" \/ kvb.tag = "None" THEN OK
                      ELSE IF kva.tag # "float" \/ kvb.tag # "float" THEN TypeError
                      ELSE IF Exceeds(kva.n, kvb.n)
                           THEN Res("E.VOLT.MISMATCH", a.s, b.s, kva.n, kvb.n)
                           ELSE OK

\* mutant: the last index is taken to be len(chain)
RECURSIVE EndpointScan_off_by_one(_, _)
EndpointScan_off_by_one(chain, i) ==
    IF i > Len(chain) THEN FALSE
    ELSE IF IsDict(chain[i]) /\ (i - 1) \notin {0, Len(chain)} THEN TRUE
    ELSE EndpointScan_off_by_one(chain, i + 1)

\* lines 24-28, from Python index i - 1 on: a dict at a non-edge index
RECURSIVE EndpointScan(_, _)
EndpointScan(chain, i) ==
    IF i > Len(chain) THEN FALSE
    ELSE IF IsDict(chain[i]) /\ (i - 1) \notin {0, Len(chain) - 1} THEN TRUE
    ELSE EndpointScan(chain, i + 1)

\* lines 30-41, from the pair (chain[j], chain[j+1]) on
RECURSIVE VoltScan(_, _, _)
VoltScan(objects, chain, j) ==
    IF j >= Len(chain) THEN OK
    ELSE LET r == VoltPair(objects, chain[j], chain[j + 1])
         IN  IF r.code # "OK" THEN r ELSE VoltScan(objects, chain, j + 1)

\* mutant: the pair loop runs before the endpoint loop
CheckChain_volt_first(objects, entry) ==
    LET chain == Elems(entry)
    IN  IF Len(chain) = 0 THEN DSLValidationError("E.CONNECT.EMPTY")
        ELSE IF VoltScan(objects, chain, 1).code # "OK" THEN VoltScan(objects, chain, 1)
        ELSE IF EndpointScan(chain, 1) THEN DSLValidationError("E.CONNECT.ENDPOINT")
        ELSE OK

\* mutant: an empty chain is not refused
CheckChain_allows_empty(objects, entry) ==
    LET chain == Elems(entry)
    IN  IF EndpointScan(chain, 1) THEN DSLValidationError("E.CONNECT.ENDPOINT")
        ELSE VoltScan(objects, chain, 1)

\* lines 22-41: the body of the loop over ir.series, for one entry
CheckChain(objects, entry) ==
    LET chain == Elems(entry)
    IN  IF Len(chain) = 0 THEN DSLValidationError("E.CONNECT.EMPTY")
        ELSE IF EndpointScan(chain, 1) THEN DSLValidationError("E.CONNECT.ENDPOINT")
        ELSE VoltScan(objects, chain, 1)

\* mutant: every chain is checked and the last error found is the one raised
RECURSIVE ChainsScan_last_error(_, _, _)
ChainsScan_last_error(objects, series, c) ==
    IF c > Len(series) THEN OK
    ELSE LET rest == ChainsScan_last_error(objects, series, c + 1)
         IN  IF rest.code # "OK" THEN rest ELSE CheckChain(objects, series[c])

\* line 21: the loop over ir.series, from entry c on
RECURSIVE ChainsScan(_, _, _)
ChainsScan(objects, series, c) ==
    IF c > Len(series) THEN OK
    ELSE LET r == CheckChain(objects, series[c])
         IN  IF r.code # "OK" THEN r ELSE ChainsScan(objects, series, c + 1)

\* line 44
Breakers(objects) == {o.id : o \in {x \in Range(objects) : x.type = "BREAKER"}}

\* mutant: the label of a STUB counts as an id of the chain
InSeries_with_stub_labels(series) ==
    {e.s : e \in {x \in UNION {Range(Elems(series[c])) : c \in DOMAIN series} :
                      x.tag = "str" \/ x.k = "STUB"}}

\* line 45: the str elements of every entry
InSeries(series) ==
    {e.s : e \in {x \in UNION {Range(Elems(series[c])) : c \in DOMAIN series} : x.tag = "str"}}

\* lines 46-48: the loop runs over a set of str, whose order is not fixed, so any
\* unconnected breaker may be the one named
BreakerOutcomes(objects, series) ==
    LET unused == Breakers(objects) \ InSeries(series)
    IN  IF unused = {} THEN {OK}
        ELSE {Res("E.PROT.BRK_UNUSED", brk, "", 0, 0) : brk \in unused}

\* mutant: the uniqueness test counts the kinds of the objects, not the keys
ValidateOutcomes_dup_by_kind(v) ==
    IF Cardinality({v.objects[i].type : i \in DOMAIN v.objects}) # Len(v.objects)
    THEN {DSLValidationError("E.ID.DUP")}
    ELSE LET r == ChainsScan(v.objects, v.series, 1)
         IN  IF r.code # "OK" THEN {r} ELSE BreakerOutcomes(v.objects, v.series)

\* validate(ir): the set of outcomes the call can have
ValidateOutcomes(v) ==
    IF Cardinality(ObjectIds(v.objects)) # Len(v.objects)
    THEN {DSLValidationError("E.ID.DUP")}
    ELSE LET r == ChainsScan(v.objects, v.series, 1)
         IN  IF r.code # "OK" THEN {r} ELSE BreakerOutcomes(v.objects, v.series)

\* mutant: validate repairs the IR by dropping the empty chains
validate_repairs ==
    /\ ir # <<>>
    /\ vres = NotRun
    /\ vres' \in ValidateOutcomes(ir[1])
    /\ ir' = <<[ir[1] EXCEPT !.series = SelectSeq(@, LAMBDA e : e.items # <<>>)]>>
    /\ UNCHANGED <<tx, status, err>>

\* the caller passes the IR it holds to validate
validate ==
    /\ ir # <<>>
    /\ vres = NotRun
    /\ vres' \in ValidateOutcomes(ir[1])
    /\ UNCHANGED <<tx, status, err, ir>>

----------------------------------------------------------------------------
(* Specification of one parse call followed by validate on its result *)

Init ==
    /\ tx = EmptyIR
    /\ status = "transform"
    /\ err = NoErr
    /\ ir = <<>>
    /\ vres = NotRun
    /\ text = <<>>
    /\ pc = 1
    /\ peer = NoCall

Next ==
    \/ \E i \in IdInputs, kv \in KvInputs, x \in ExtraInputs, loc \in Locs :
          ADD_BUS(i, kv, x, loc) /\ UNCHANGED callvars
    \/ \E i \in IdInputs, kv \in KvInputs, x \in ExtraInputs, loc \in Locs :
          ADD_BREAKER(i, kv, x, loc) /\ UNCHANGED callvars
    \/ \E i \in IdInputs, kv \in KvInputs, x \in ExtraInputs, loc \in Locs :
          ADD_LINE(i, kv, x, loc) /\ UNCHANGED callvars
    \/ \E c \in ListsUpTo(ConnectItems, MaxIR - 1 - IRSize(tx)), loc \in Locs :
          connect_stmt(c, loc) /\ UNCHANGED callvars
    \/ \E p \in PageIds, loc \in Locs :
          page_stmt(p, loc) /\ UNCHANGED callvars
    \/ \E loc \in Locs :
          style_stmt(loc) /\ UNCHANGED callvars
    \/ \E loc \in Locs :
          label_stmt(loc) /\ UNCHANGED callvars
    \/ \E loc \in Locs :
          layout_stmt(loc) /\ UNCHANGED callvars
    \/ \E loc \in Locs :
          validate_stmt(loc) /\ UNCHANGED callvars
    \/ \E loc \in Locs :
          emit_stmt(loc) /\ UNCHANGED callvars
    \/ parse_return /\ UNCHANGED callvars
    \/ validate /\ UNCHANGED callvars

Spec == Init /\ [][Next]_vars

----------------------------------------------------------------------------
(* Specification of validate on an IR built directly (ir_types.py) *)

\* ir_types.Object(id, type, attrs): no source location
Object(oid, typ, attrs) == ObjectIR(oid, typ, attrs, <<0, 0>>)

\* the objects an IR may declare, per id: absent, or one of these
ObjectsA == {<<>>, <<Object("a", "BREAKER", <<KV("id", PyStr("a")), KV("kv", PyNum(100))>>)>>}

ObjectsB ==
    {<<>>,
     <<Object("b", "LINE", <<KV("id", PyStr("b")), KV("kv", PyNum(85))>>)>>,
     <<Object("b", "BUS", <<KV("id", PyStr("b")), KV("kv", PyNum(100))>>)>>,
     <<Object("b", "TRANSFORMER", <<KV("id", PyStr("b")), KV("rated_MVA", PyNum(50))>>)>>}

ObjectsC ==
    {<<>>,
     <<Object("c", "LINE", <<KV("id", PyStr("c")), KV("kv", PyNum(84))>>)>>,
     <<Object("c", "DC_SYSTEM", <<KV("id", PyStr("c")), KV("nominal_V", PyNum(125))>>)>>}

Tables == {A \o B \o C : A \in ObjectsA, B \in ObjectsB, C \in ObjectsC}

\* elements of a chain of an IR built directly
ChainItems == {PyStr("a"), PyStr("b"), PyStr("c"), OPEN_END, stub_obj("a")}

\* IR(objects=table): chains are appended afterwards
InitValidate ==
    /\ tx = EmptyIR
    /\ status = "direct"
    /\ err = NoErr
    /\ vres = NotRun
    /\ ir \in {<<[EmptyIR EXCEPT !.objects = t]>> : t \in Tables}
    /\ text = <<>>
    /\ pc = 1
    /\ peer = NoCall

\* ir.series.append(chain), chain a list of ids and terminals
append_chain(chain) ==
    /\ status = "direct"
    /\ vres = NotRun
    /\ SeriesSize(ir[1].series) + 1 + Len(chain) <= MaxSeries
    /\ ir' = <<[ir[1] EXCEPT !.series =
                    Append(@, [tag |-> "list", items |-> chain, loc |-> <<0, 0>>])]>>
    /\ UNCHANGED <<tx, status, err, vres>>

NextValidate ==
    \/ \E chain \in ListsUpTo(ChainItems, MaxSeries - 1 - SeriesSize(ir[1].series)) :
          append_chain(chain) /\ UNCHANGED callvars
    \/ validate /\ UNCHANGED callvars

SpecValidate == InitValidate /\ [][NextValidate]_vars

----------------------------------------------------------------------------
(* Object registration and parse: claims C1 - C5, under Spec *)

Kinds == {"BUS", "BREAKER", "LINE"}

\* the item the ADD_<typ> handler hands to add_stmt
AddItem(typ, i, kv, x, loc) ==
    CASE typ = "BUS" -> add_bus(i, kv, x, loc)
      [] typ = "BREAKER" -> add_breaker(i, kv, x, loc)
      [] typ = "LINE" -> add_line(i, kv, x, loc)

\* every ADD_* statement of the input alphabet, with the item its handler builds
AddCalls ==
    {[typ |-> typ, i |-> i, kv |-> kv, x |-> x, loc |-> loc, item |-> AddItem(typ, i, kv, x, loc)] :
        typ \in Kinds, i \in IdInputs, kv \in KvInputs, x \in ExtraInputs, loc \in Locs}

\* C1: registering an object whose id is already a key of the object table
\* fails with the duplicate-id error, whatever the kinds of the two objects,
\* and leaves the transformer's IR (the table with the first object) as it was.
C1_DuplicateIdFails ==
    [][\A c \in AddCalls :
          (Truthy(c.i) /\ c.i.s \in ObjectIds(tx.objects) /\ add_stmt(c.item))
          => /\ status' = "raised"
             /\ err'.type = "ValueError" /\ err'.what = "Duplicate id" /\ err'.id = c.i.s
             /\ tx' = tx]_vars

\* a BREAKER statement was refused for an id that a BUS registered first holds
C1_Witness ==
    /\ status = "raised"
    /\ err.what = "Duplicate id"
    /\ \E o \in Range(tx.objects) : o.id = err.id /\ o.type = "BUS"
    /\ Len(tx.objects) = 1

\* C2: registering an object whose mandatory id is None or "" fails with the
\* missing-id error and inserts nothing, whatever the extension block carries.
C2_MissingIdFails ==
    [][\A c \in AddCalls :
          ((c.i = PyNone \/ c.i = PyStr("")) /\ add_stmt(c.item))
          => /\ status' = "raised"
             /\ err'.type = "ValueError" /\ err'.what = "Missing id" /\ err'.typ = c.typ
             /\ tx'.objects = tx.objects]_vars

C2_Witness ==
    /\ status = "raised"
    /\ err.what = "Missing id"
    /\ Len(tx.objects) = 1

\* C3: a successful registration appends exactly one entry after all earlier
\* ones and leaves the other objects, the chain list and the page table alone.
C3_RegistrationAppendsOne ==
    [][\A c \in AddCalls :
          (Truthy(c.i) /\ c.i.s \notin ObjectIds(tx.objects) /\ add_stmt(c.item))
          => /\ status' = "transform"
             /\ Len(tx'.objects) = Len(tx.objects) + 1
             /\ SubSeq(tx'.objects, 1, Len(tx.objects)) = tx.objects
             /\ tx'.objects[Len(tx'.objects)].id = c.i.s
             /\ tx'.objects[Len(tx'.objects)].type = c.typ
             /\ tx'.series = tx.series
             /\ tx'.pages = tx.pages]_vars

\* two objects registered, with a chain and a page already in the IR
C3_Witness ==
    /\ status = "transform"
    /\ Len(tx.objects) = 2
    /\ tx.objects[1].type # tx.objects[2].type
    /\ tx.series # <<>>
    /\ tx.pages # <<>>

\* C4: the second ADD_* statement of an id ends the parse call with the
\* duplicate-id error for that statement; after it no statement is processed,
\* parse returns no IR and validate is never run.
C4_DuplicateAbortsParse ==
    /\ [][\A c \in AddCalls :
             (Truthy(c.i) /\ c.i.s \in ObjectIds(tx.objects) /\ add_stmt(c.item))
             => /\ status' = "raised"
                /\ err'.what = "Duplicate id" /\ err'.id = c.i.s /\ err'.line = c.loc[1]
                /\ ir' = <<>>
                /\ vres' = NotRun]_vars
    /\ [](status = "raised" => (ir = <<>> /\ vres = NotRun /\ ~ENABLED Next))

\* the duplicate was met with a chain already built: nothing of it is returned
C4_Witness ==
    /\ status = "raised"
    /\ err.what = "Duplicate id"
    /\ tx.series # <<>>
    /\ ir = <<>>

\* the chain list as the CONNECT statements wrote it: lists of elements
Written(series) ==
    [c \in DOMAIN series |-> [tag |-> "list", items |-> series[c].items, loc |-> series[c].loc]]

\* C5: validate on the IR parse returned has the outcome the ordered rule set
\* has on the element sequences written in the CONNECT statements.
C5_ValidateOnParsedIR ==
    (status = "returned" /\ vres # NotRun)
    => vres \in ValidateOutcomes([ir[1] EXCEPT !.series = Written(@)])

----------------------------------------------------------------------------
(* The rule set of validate: claims C6 - C10, under SpecValidate *)

\* validate has been called on a directly built IR and its outcome is known
Validated == status = "direct" /\ vres # NotRun

\* the i-th chain of the validated IR
Chain(i) == ir[1].series[i].items

\* a Terminal (OPEN_END or STUB) at an index other than 0 and len-1
MidTerminal(chain) == \E p \in 2..(Len(chain) - 1) : chain[p].tag = "dict"

Declared(x) == x.tag = "str" /\ x.s \in ObjectIds(ir[1].objects)

ObjOf(x) == CHOOSE o \in Range(ir[1].objects) : o.id = x.s

KvOf(x) == DictGet(ObjOf(x).attrs, "kv").n

\* a pair of declared objects, neither BUS nor TRANSFORMER, both with a kv
Qualifies(a, b) ==
    /\ Declared(a) /\ Declared(b)
    /\ {ObjOf(a).type, ObjOf(b).type} \cap {"BUS", "TRANSFORMER"} = {}
    /\ "kv" \in Keys(ObjOf(a).attrs) /\ "kv" \in Keys(ObjOf(b).attrs)

\* |kva - kvb| > 0.15 * max(kva, kvb), in hundredths
Over(kva, kvb) ==
    LET d == IF kva >= kvb THEN kva - kvb ELSE kvb - kva
        m == IF kva >= kvb THEN kva ELSE kvb
    IN  100 * d > 15 * m

Mismatch(chain, j) ==
    Qualifies(chain[j], chain[j + 1]) /\ Over(KvOf(chain[j]), KvOf(chain[j + 1]))

\* the codes of the rules the chain violates
Violations(chain) ==
    {code \in {"E.CONNECT.EMPTY", "E.CONNECT.ENDPOINT", "E.VOLT.MISMATCH"} :
        \/ code = "E.CONNECT.EMPTY" /\ Len(chain) = 0
        \/ code = "E.CONNECT.ENDPOINT" /\ MidTerminal(chain)
        \/ code = "E.VOLT.MISMATCH" /\ \E j \in 1..(Len(chain) - 1) : Mismatch(chain, j)}

\* every chain before the i-th violates no rule
Reached(i) == \A k \in 1..(i - 1) : Violations(Chain(k)) = {}

\* C6: validate raises the first violation in the order E.ID.DUP, the chains
\* in list order, E.PROT.BRK_UNUSED: the error is one of the first violating
\* chain's, whatever later chains violate, and E.PROT.BRK_UNUSED or success
\* come only when every chain passed.
C6_FailFastOrder ==
    Validated =>
        /\ \A i \in DOMAIN ir[1].series :
              (Reached(i) /\ Violations(Chain(i)) # {}) => vres.code \in Violations(Chain(i))
        /\ vres.code \in {"OK", "E.PROT.BRK_UNUSED"}
              <=> \A i \in DOMAIN ir[1].series : Violations(Chain(i)) = {}
        /\ vres.code = "E.PROT.BRK_UNUSED"
              <=> /\ \A i \in DOMAIN ir[1].series : Violations(Chain(i)) = {}
                  /\ Breakers(ir[1].objects) \ InSeries(ir[1].series) # {}
        /\ vres.code # "E.ID.DUP"

\* the first chain's endpoint error hid an empty second chain and an unused breaker
C6_Witness ==
    /\ Validated
    /\ vres.code = "E.CONNECT.ENDPOINT"
    /\ Len(ir[1].series) = 2
    /\ Chain(2) = <<>>
    /\ Breakers(ir[1].objects) \ InSeries(ir[1].series) # {}

\* C7: a non-empty chain that validate comes to check raises
\* E.CONNECT.ENDPOINT if and only if a Terminal sits at a non-edge index;
\* terminals at the first or last position, a lone terminal included, pass.
C7_EndpointIffMidTerminal ==
    Validated =>
        (vres.code = "E.CONNECT.ENDPOINT"
              <=> \E i \in DOMAIN ir[1].series :
                     Reached(i) /\ Len(Chain(i)) > 0 /\ MidTerminal(Chain(i)))

\* a lone terminal passed, a chain with terminals at both edges and between failed
C7_Witness ==
    /\ Validated
    /\ vres.code = "E.CONNECT.ENDPOINT"
    /\ Len(ir[1].series) = 2
    /\ Chain(1) = <<OPEN_END>>
    /\ Len(Chain(2)) = 3
    /\ \A p \in 1..3 : Chain(2)[p].tag = "dict"

\* C8: for the first adjacent pair of a checked chain that is a pair of declared
\* objects, neither BUS nor TRANSFORMER, both with a kv, and that no failing pair
\* precedes, validate raises E.VOLT.MISMATCH for that pair exactly when
\* |kva - kvb| > 0.15 * max(kva, kvb); a difference at the threshold passes.
C8_VoltMismatchThreshold ==
    Validated =>
        \A i \in DOMAIN ir[1].series :
            (Reached(i) /\ Len(Chain(i)) > 0 /\ ~MidTerminal(Chain(i))) =>
                \A j \in 1..(Len(Chain(i)) - 1) :
                    (/\ Qualifies(Chain(i)[j], Chain(i)[j + 1])
                     /\ \A h \in 1..(j - 1) : ~Mismatch(Chain(i), h))
                    => ((/\ vres.code = "E.VOLT.MISMATCH"
                         /\ vres.a = Chain(i)[j].s /\ vres.b = Chain(i)[j + 1].s
                         /\ vres.kva = KvOf(Chain(i)[j]) /\ vres.kvb = KvOf(Chain(i)[j + 1]))
                        <=> Over(KvOf(Chain(i)[j]), KvOf(Chain(i)[j + 1])))

\* 85 against 100 is at the threshold and passed; 100 against 84 was raised
C8_Witness ==
    /\ Validated
    /\ vres = Res("E.VOLT.MISMATCH", "a", "c", 100, 84)
    /\ Len(ir[1].series) = 1
    /\ Chain(1) = <<PyStr("b"), PyStr("a"), PyStr("c")>>
    /\ Declared(PyStr("b")) /\ ObjOf(PyStr("b")).type = "LINE"

\* C9: E.VOLT.MISMATCH is raised only for two directly adjacent elements that
\* are both declared ids of objects other than BUS and TRANSFORMER and both
\* with a kv: never for a pair with a Terminal, an undeclared id, a BUS, a
\* TRANSFORMER or an object without kv, and never across an element between.
C9_VoltSkips ==
    (Validated /\ vres.code = "E.VOLT.MISMATCH") =>
        \E i \in DOMAIN ir[1].series :
            \E j \in 1..(Len(Chain(i)) - 1) :
                /\ Reached(i)
                /\ Chain(i)[j] = PyStr(vres.a)
                /\ Chain(i)[j + 1] = PyStr(vres.b)
                /\ Qualifies(Chain(i)[j], Chain(i)[j + 1])

\* 100 and 84 with a BUS between them passed
C9_Witness ==
    /\ Validated
    /\ vres = OK
    /\ Len(ir[1].series) = 1
    /\ Chain(1) = <<PyStr("a"), PyStr("b"), PyStr("c")>>
    /\ Declared(PyStr("a"))
    /\ Declared(PyStr("b")) /\ ObjOf(PyStr("b")).type = "BUS"
    /\ Declared(PyStr("c")) /\ ObjOf(PyStr("c")).type = "LINE"

\* C10: an empty chain that no failing chain precedes makes validate raise
\* E.CONNECT.EMPTY.
C10_EmptyChainRaises ==
    Validated =>
        \A i \in DOMAIN ir[1].series :
            (Reached(i) /\ Len(Chain(i)) = 0) => vres = DSLValidationError("E.CONNECT.EMPTY")

\* the empty chain came second, after a chain that passed
C10_Witness ==
    /\ Validated
    /\ vres.code = "E.CONNECT.EMPTY"
    /\ Len(ir[1].series) = 2
    /\ Len(Chain(1)) = 2
    /\ Chain(2) = <<>>

\* the ids written as plain-identifier elements of some chain
PlainIds == {x.s : x \in {e \in UNION {Range(Chain(i)) : i \in DOMAIN ir[1].series} : e.tag = "str"}}

\* the labels of the STUB elements of the chains
StubLabels ==
    {x.s : x \in {e \in UNION {Range(Chain(i)) : i \in DOMAIN ir[1].series} : e.k = "STUB"}}

\* the objects of kind BREAKER that no chain names as a plain identifier
Unconnected == {o \in Range(ir[1].objects) : o.type = "BREAKER" /\ o.id \notin PlainIds}

\* C11: when every chain passes its checks, validate raises E.PROT.BRK_UNUSED
\* if and only if some BREAKER object's id is a plain-identifier element of no
\* chain, and names such a breaker; a STUB label does not connect a breaker,
\* and objects of other kinds need not appear in any chain.
C11_BreakerUnusedIff ==
    (Validated /\ \A i \in DOMAIN ir[1].series : Violations(Chain(i)) = {}) =>
        /\ vres.code = "E.PROT.BRK_UNUSED" <=> Unconnected # {}
        /\ vres.code = "E.PROT.BRK_UNUSED" => vres.a \in {o.id : o \in Unconnected}
        /\ Unconnected = {} => vres = OK

\* breaker a is named by a STUB label only, line c is in no chain: a is reported
C11_Witness ==
    /\ Validated
    /\ vres = Res("E.PROT.BRK_UNUSED", "a", "", 0, 0)
    /\ "a" \in StubLabels
    /\ \E o \in Range(ir[1].objects) : o.type = "LINE" /\ o.id \notin PlainIds
    /\ PlainIds # {}

\* C12: validate never modifies the IR: whether it returns or raises, the
\* object table with every object's attrs, the chain list, pages and style
\* are after the call what they were before it.
C12_ValidateReadOnly ==
    [][(vres = NotRun /\ vres' # NotRun) =>
          /\ ir'[1].objects = ir[1].objects
          /\ ir'[1].series = ir[1].series
          /\ ir'[1].pages = ir[1].pages
          /\ ir'[1].style = ir[1].style]_vars

\* validate raised for an empty chain, which is still in the IR
C12_Witness ==
    /\ Validated
    /\ vres.code = "E.CONNECT.EMPTY"
    /\ ir[1].objects # <<>>
    /\ \E i \in DOMAIN ir[1].series : Chain(i) = <<>>

----------------------------------------------------------------------------
(* The attrs map of an ADD_<KIND> object: claims C13, C14, under Spec *)

\* the mandatory keys of a kind, in the order its add_* handler writes them
MandatoryKeys(typ) ==
    CASE typ = "BUS" -> <<"id", "kv">>
      [] typ = "BREAKER" -> <<"id", "kv", "interrupting_kA", "type", "continuous_A">>
      [] typ = "LINE" -> <<"id", "kv", "type", "length_km", "thermal_A">>
      [] typ = "CABLE" -> <<"id", "kv", "length_km", "thermal_A", "insulation">>

\* the attrs of the object the step has just registered
NewAttrs == tx'.objects[Len(tx'.objects)].attrs

KeyOrder(d) == [i \in DOMAIN d |-> d[i].key]

\* C14: iterating the attrs of an ADD_<KIND> object yields the mandatory keys
\* first, in the order of the kind, and the keys of the extension block after
\* them, with or without an extension block.
C14_MandatoryFirst ==
    \A o \in Range(tx.objects) :
        /\ Len(o.attrs) >= Len(MandatoryKeys(o.type))
        /\ SubSeq(KeyOrder(o.attrs), 1, Len(MandatoryKeys(o.type))) = MandatoryKeys(o.type)

----------------------------------------------------------------------------
(* CONNECT statements: claim C15, under Spec *)

\* every CONNECT statement of the input alphabet
ConnectCalls == {[c |-> c, loc |-> loc] : c \in ListsUpTo(ConnectItems, MaxIR - 1), loc \in Locs}

\* C15: a CONNECT statement appends exactly one chain at the end of the chain
\* list; its elements are the written elements in the written order, repeated
\* ids kept, undeclared ids accepted; the object table is unchanged.
C15_ConnectAppendsChain ==
    [][\A k \in ConnectCalls :
          (tx'.series # tx.series /\ connect_stmt(k.c, k.loc))
          => /\ status' = "transform"
             /\ Len(tx'.series) = Len(tx.series) + 1
             /\ SubSeq(tx'.series, 1, Len(tx.series)) = tx.series
             /\ tx'.series[Len(tx'.series)].items = k.c
             /\ tx'.series[Len(tx'.series)].loc = k.loc
             /\ tx'.objects = tx.objects
             /\ tx'.pages = tx.pages]_vars

\* a chain with a repeated id, not in sorted order, whose ids are not declared
C15_Witness ==
    /\ status = "transform"
    /\ tx.objects = <<>>
    /\ Len(tx.series) = 1
    /\ tx.series[1].items = <<PyStr("b"), PyStr("a"), PyStr("b")>>

----------------------------------------------------------------------------
(* Two parse calls, each over its own script, their handlers interleaved *)

\* lines of a script
MaxText == 3

Stmt(op, i, x, c, p) == [op |-> op, i |-> i, kv |-> PyNum(138), x |-> x, c |-> c, p |-> p]

\* a statement without parameters that matter to the IR
Plain(op) == Stmt(op, PyNone, <<>>, <<>>, "")

\* the statements a script line may hold
Statements ==
    {Stmt("ADD_BUS", PyStr("a"), <<>>, <<>>, ""),
     Stmt("ADD_BREAKER", PyStr("b"), <<KV("note", PyStr("x")), KV("id", PyStr("a"))>>, <<>>, ""),
     Stmt("ADD_LINE", PyStr("a"), <<>>, <<>>, ""),
     Stmt("CONNECT", PyNone, <<>>, <<PyStr("a"), OPEN_END>>, ""),
     Stmt("PAGE", PyNone, <<>>, <<>>, "p1"),
     Plain("APPEND_TO_BAY"), Plain("STYLE"), Plain("LABEL"), Plain("SET_LAYOUT"),
     Plain("VALIDATE"), Plain("EMIT_SPEC")}

\* a line without a statement (empty, or a comment): the grammar skips it
Blank == Plain("BLANK")

\* the entries a script adds to an IR, at most
RECURSIVE TextSize(_)
TextSize(t) ==
    IF t = <<>> THEN 0
    ELSE TextSize(Tail(t)) +
         CASE Head(t).op \in {"ADD_BUS", "ADD_BREAKER", "ADD_LINE", "PAGE"} -> 1
           [] Head(t).op = "CONNECT" -> 1 + Len(Head(t).c)
           [] OTHER -> 0

Texts == {t \in ListsUpTo(Statements, MaxText) : TextSize(t) <= MaxIR}

\* the script with its VALIDATE and EMIT_SPEC statements taken out of their lines
Stripped(t) == [n \in DOMAIN t |-> IF t[n].op \in {"VALIDATE", "EMIT_SPEC"} THEN Blank ELSE t[n]]

\* the first line from n on that holds a statement, Len(t) + 1 if there is none
RECURSIVE NextLine(_, _)
NextLine(t, n) ==
    IF n > Len(t) THEN Len(t) + 1
    ELSE IF t[n].op # "BLANK" THEN n
    ELSE NextLine(t, n + 1)

\* mutant: the second call starts from a transformer that has been used before
NewCall_reuses_transformer(k, t) ==
    [id |-> k,
     tx |-> IF k = 1 THEN EmptyIR
            ELSE [EmptyIR EXCEPT !.objects = <<ObjectIR("a", "BUS", <<KV("id", PyStr("a"))>>, <<1, 1>>)>>],
     status |-> "transform", err |-> NoErr, ir |-> <<>>,
     text |-> t, pc |-> NextLine(t, 1)]

\* a parse call that has just built its transformer: ToIR() with self.ir = IR()
NewCall(k, t) ==
    [id |-> k, tx |-> EmptyIR, status |-> "transform", err |-> NoErr, ir |-> <<>>,
     text |-> t, pc |-> NextLine(t, 1)]

\* the statement the transformer visits, and its meta.line, meta.column
Cur == text[pc]

CurLoc == <<pc, 1>>

Fetch(op) == status = "transform" /\ pc <= Len(text) /\ text[pc].op = op

Advance == pc' = NextLine(text, pc + 1) /\ UNCHANGED <<text, peer>>

\* APPEND_TO_BAY has no callback in ToIR: the transformer keeps the subtree
append_to_bay_stmt(loc) == At(loc) /\ UNCHANGED vars

run_add_bus == Fetch("ADD_BUS") /\ ADD_BUS(Cur.i, Cur.kv, Cur.x, CurLoc) /\ Advance

run_add_breaker == Fetch("ADD_BREAKER") /\ ADD_BREAKER(Cur.i, Cur.kv, Cur.x, CurLoc) /\ Advance

run_add_line == Fetch("ADD_LINE") /\ ADD_LINE(Cur.i, Cur.kv, Cur.x, CurLoc) /\ Advance

run_connect == Fetch("CONNECT") /\ connect_stmt(Cur.c, CurLoc) /\ Advance

run_page == Fetch("PAGE") /\ page_stmt(Cur.p, CurLoc) /\ Advance

run_append_to_bay == Fetch("APPEND_TO_BAY") /\ append_to_bay_stmt(CurLoc) /\ Advance

run_style == Fetch("STYLE") /\ style_stmt(CurLoc) /\ Advance

run_label == Fetch("LABEL") /\ label_stmt(CurLoc) /\ Advance

run_layout == Fetch("SET_LAYOUT") /\ layout_stmt(CurLoc) /\ Advance

run_validate == Fetch("VALIDATE") /\ validate_stmt(CurLoc) /\ Advance

run_emit == Fetch("EMIT_SPEC") /\ emit_stmt(CurLoc) /\ Advance

\* the transformer has visited every statement: parse returns tx.ir
run_return == pc > Len(text) /\ parse_return /\ UNCHANGED callvars

\* mutant: the two calls write to one object table
switch_call_shares_objects ==
    /\ peer.status = "transform"
    /\ peer' = [id |-> 3 - peer.id, tx |-> tx, status |-> status, err |-> err, ir |-> ir,
                text |-> text, pc |-> pc]
    /\ tx' = [peer.tx EXCEPT !.objects = tx.objects]
    /\ status' = peer.status
    /\ err' = peer.err
    /\ ir' = peer.ir
    /\ text' = peer.text
    /\ pc' = peer.pc
    /\ UNCHANGED vres

\* the interpreter suspends the running call and resumes the other one; each
\* call keeps its own tx (a local of parse) and the IR its ToIR allocated
switch_call ==
    /\ peer.status = "transform"
    /\ peer' = [id |-> 3 - peer.id, tx |-> tx, status |-> status, err |-> err, ir |-> ir,
                text |-> text, pc |-> pc]
    /\ tx' = peer.tx
    /\ status' = peer.status
    /\ err' = peer.err
    /\ ir' = peer.ir
    /\ text' = peer.text
    /\ pc' = peer.pc
    /\ UNCHANGED vres

InitCalls ==
    /\ vres = NotRun
    /\ \E t1 \in Texts :
          \E t2 \in {t1, Stripped(t1)} :
             /\ tx = NewCall(1, t1).tx
             /\ status = NewCall(1, t1).status
             /\ err = NewCall(1, t1).err
             /\ ir = NewCall(1, t1).ir
             /\ text = NewCall(1, t1).text
             /\ pc = NewCall(1, t1).pc
             /\ peer = NewCall(2, t2)

NextCalls ==
    \/ run_add_bus
    \/ run_add_breaker
    \/ run_add_line
    \/ run_connect
    \/ run_page
    \/ run_append_to_bay
    \/ run_style
    \/ run_label
    \/ run_layout
    \/ run_validate
    \/ run_emit
    \/ run_return
    \/ switch_call

SpecCalls == InitCalls /\ [][NextCalls]_allvars

\* the state of call k, running or suspended
Call(k) ==
    IF peer.id = k THEN peer
    ELSE [id |-> k, tx |-> tx, status |-> status, err |-> err, ir |-> ir,
          text |-> text, pc |-> pc]

Done(k) == Call(k).status \in {"returned", "raised"}

----------------------------------------------------------------------------
(* Parse calls: claims C16 - C19, under SpecCalls *)

\* C16: two parse calls of the same text, whichever runs first and however
\* they interleave, end the same way and return IRs with the same object ids
\* in the same order, the same kinds, attrs, chains and (line, column)s.
C16_ParseDeterministic ==
    (Done(1) /\ Done(2) /\ Call(1).text = Call(2).text) =>
        /\ Call(1).status = Call(2).status
        /\ Call(1).err = Call(2).err
        /\ Call(1).ir = Call(2).ir

\* both calls returned an IR with the breaker, its extension attrs and a chain
C16_Witness ==
    /\ Done(1) /\ Done(2)
    /\ Call(1).text = Call(2).text
    /\ Call(1).status = "returned"
    /\ Call(2).ir # <<>>
    /\ Call(2).ir[1].series # <<>>
    /\ \E o \in Range(Call(2).ir[1].objects) : o.type = "BREAKER" /\ Len(o.attrs) = 6

AddOps == {"ADD_BUS", "ADD_BREAKER", "ADD_LINE"}

\* the kind an ADD_<KIND> statement declares
KindOf(op) ==
    CASE op = "ADD_BUS" -> "BUS"
      [] op = "ADD_BREAKER" -> "BREAKER"
      [] op = "ADD_LINE" -> "LINE"

\* the lines of a script that hold a statement of one of the ops
LinesOf(t, ops) == {n \in DOMAIN t : t[n].op \in ops}

\* the entries (objects, chains or pages) are in source order
InSourceOrder(entries) ==
    \A m, n \in DOMAIN entries : m < n => entries[m].loc[1] < entries[n].loc[1]

\* the IR holds the objects, chains and pages of the script t and nothing else
HoldsExactly(v, t) ==
    /\ InSourceOrder(v.objects)
    /\ {o.loc[1] : o \in Range(v.objects)} = LinesOf(t, AddOps)
    /\ \A o \in Range(v.objects) :
          /\ o.loc = <<o.loc[1], 1>>
          /\ o.id = t[o.loc[1]].i.s
          /\ o.type = KindOf(t[o.loc[1]].op)
          /\ DictGet(o.attrs, "id") = t[o.loc[1]].i
    /\ InSourceOrder(v.series)
    /\ {e.loc[1] : e \in Range(v.series)} = LinesOf(t, {"CONNECT"})
    /\ \A e \in Range(v.series) : e.items = t[e.loc[1]].c
    /\ {g.id : g \in Range(v.pages)} = {t[n].p : n \in LinesOf(t, {"PAGE"})}
    /\ \A g \in Range(v.pages) : g.loc[1] \in LinesOf(t, {"PAGE"}) /\ t[g.loc[1]].p = g.id

\* the script declares the id twice, the second time on the given line
DeclaredTwice(t, id, line) ==
    /\ line \in LinesOf(t, AddOps)
    /\ t[line].i.s = id
    /\ \E m \in LinesOf(t, AddOps) : m < line /\ t[m].i.s = id

\* C17: with the handlers of two parse calls interleaved in any order, the IR
\* a call returns holds exactly the objects, chains and pages of its own text,
\* and a call fails with a duplicate id only for an id that its own text
\* declares twice; the other call's declarations never count.
C17_CallsIsolated ==
    \A k \in {1, 2} :
        /\ Call(k).status = "returned" => HoldsExactly(Call(k).ir[1], Call(k).text)
        /\ Call(k).status = "raised" =>
              /\ Call(k).err.what = "Duplicate id"
              /\ DeclaredTwice(Call(k).text, Call(k).err.id, Call(k).err.line)
              /\ Call(k).ir = <<>>

\* call 2 declared a while call 1, which had already declared a, was suspended;
\* both returned
C17_Witness ==
    /\ peer.id = 1 /\ peer.status = "transform" /\ peer.pc = 2 /\ Len(peer.text) = 2
    /\ ObjectIds(peer.tx.objects) = {"a"}
    /\ status = "returned"
    /\ ObjectIds(ir[1].objects) = {"a"}
    /\ ir[1].series # <<>>

NoOps == {"APPEND_TO_BAY", "VALIDATE", "EMIT_SPEC", "STYLE", "LABEL", "SET_LAYOUT"}

\* C18: after a successful parse there are as many objects as ADD_* statements
\* and as many chains as CONNECT statements; an APPEND_TO_BAY, VALIDATE,
\* EMIT_SPEC, STYLE, LABEL or SET_LAYOUT statement changes no object and no
\* chain, wherever it stands in the script.
C18_CountsAndNoOps ==
    /\ [](\A k \in {1, 2} :
            Call(k).status = "returned" =>
                /\ Len(Call(k).ir[1].objects) = Cardinality(LinesOf(Call(k).text, AddOps))
                /\ Len(Call(k).ir[1].series) = Cardinality(LinesOf(Call(k).text, {"CONNECT"})))
    /\ [][(/\ status = "transform" /\ pc <= Len(text) /\ text[pc].op \in NoOps
           /\ pc' > pc /\ peer' = peer)
          => (tx' = tx /\ status' = "transform")]_allvars

\* a script of three lines, with a no-op statement between an ADD and a CONNECT
C18_Witness ==
    /\ status = "returned"
    /\ Len(text) = 3
    /\ text[1].op \in AddOps /\ text[2].op \in NoOps /\ text[3].op = "CONNECT"
    /\ Len(ir[1].objects) = 1 /\ Len(ir[1].series) = 1

\* C19: parse never runs the validator: a script and the same script with its
\* VALIDATE and EMIT_SPEC statements taken out end the same way and yield the
\* same IR, also when the IR violates a validator rule; no validation outcome
\* exists when parse ends.
C19_ParseNeverValidates ==
    /\ vres = NotRun
    /\ (/\ Done(1) /\ Done(2)
        /\ LinesOf(Call(1).text, {"VALIDATE", "EMIT_SPEC"}) # {}
        /\ Call(2).text = Stripped(Call(1).text))
       => /\ Call(1).status = Call(2).status
          /\ Call(1).err = Call(2).err
          /\ Call(1).ir = Call(2).ir

\* the script declares a breaker that no chain names and then says VALIDATE:
\* parse returned its IR, on which the breaker rule fails
C19_Witness ==
    /\ Done(1) /\ Done(2)
    /\ LinesOf(Call(1).text, {"VALIDATE"}) # {}
    /\ Call(1).text[Len(Call(1).text)].op # "VALIDATE"
    /\ Call(2).text = Stripped(Call(1).text)
    /\ Call(1).status = "returned"
    /\ \E r \in ValidateOutcomes([Call(1).ir[1] EXCEPT !.series = Written(@)]) :
          r.code = "E.PROT.BRK_UNUSED"

----------------------------------------------------------------------------
(* Syntax errors: parse turns an UnexpectedInput of the parser into ParseError *)

\* lines of a malformed text
MaxLines == 2

\* a source line, as text.splitlines() yields it
SourceLines == {"", "ADD_BUS id=b1"}

SyntaxTexts == ListsUpTo(SourceLines, MaxLines)

\* the attributes line, column and expected of an UnexpectedInput for the text
\* t; getattr(e, name, default) allows for each of them to be absent
UnexpectedInputs(t) ==
    [line : {PyNone} \cup {PyNum(n) : n \in -1..(Len(t) + 1)},
     column : {PyNone} \cup {PyNum(n) : n \in -1..3},
     expected : {<<>>, <<{"ID"}>>, <<{"COMMA", "NEWLINE"}>>}]

\* ParseError(message, line, column); the message is kept in its parts:
\* the position, the context (source line and number of spaces before the
\* caret) or nothing, and the expected set
ParseError(message, line, column) ==
    [type |-> "ParseError", message |-> message, line |-> line, column |-> column]

\* lines 794-806: the except branch of parse
ParseErrorOf(t, e) ==
    LET line == e.line
        column == e.column
        context == IF Truthy(line) /\ 1 <= line.n /\ line.n <= Len(t)
                   THEN <<[src_line |-> t[line.n],
                           spaces |-> IF Truthy(column) /\ column.n > 0
                                      THEN column.n - 1 ELSE 0]>>
                   ELSE <<>>
        expected == IF e.expected = <<>> THEN {} ELSE e.expected[1]
    IN  ParseError([line |-> line, column |-> column, context |-> context,
                    expected |-> expected], line, column)

\* _parser.parse(text) raises UnexpectedInput: parse raises ParseError instead
syntax_error(e) ==
    /\ status = "parsing"
    /\ status' = "raised"
    /\ err' = ParseErrorOf(text, e)
    /\ UNCHANGED <<tx, ir, vres, callvars>>

InitSyntax ==
    /\ text \in SyntaxTexts
    /\ status = "parsing"
    /\ tx = EmptyIR
    /\ err = NoErr
    /\ ir = <<>>
    /\ vres = NotRun
    /\ pc = 1
    /\ peer = NoCall

NextSyntax == \E e \in UnexpectedInputs(text) : syntax_error(e)

SpecSyntax == InitSyntax /\ [][NextSyntax]_allvars

\* C20: for every syntax error with a position (a line, and a column from 1
\* on), the ParseError carries the position, and its message holds the source
\* line of that position and a caret line with column-1 spaces before the
\* caret, wherever the position is: at the end of input and outside the text too.
C20_ErrorContext ==
    (/\ status = "raised" /\ err.type = "ParseError"
     /\ err.line.tag = "float" /\ err.column.tag = "float" /\ err.column.n >= 1)
    => /\ err.line = err.message.line /\ err.column = err.message.column
       /\ err.message.context # <<>>
       /\ err.message.context[1].src_line = text[err.line.n]
       /\ err.message.context[1].spaces = err.column.n - 1

----------------------------------------------------------------------------
(* Error taxonomy of the transformer: claim C21, under Spec *)

\* C21: a duplicate-id or missing-id error of the transformation is of the
\* validator's error family (DSLValidationError, which carries a code), and is
\* not a ParseError.
C21_IdErrorFamily ==
    (status = "raised" /\ err.what \in {"Duplicate id", "Missing id"}) =>
        /\ err.type = "DSLValidationError"
        /\ err.type # "ParseError"

----------------------------------------------------------------------------
(* SpecAdd: one parse call whose ADD_BUS and ADD_CABLE statements are given by
   the children their handlers receive, so that a statement subtree may lack a
   value or an optional block *)

\* a dict met as a child or stored as an attribute value
PyDict(d) == [tag |-> "dict", k |-> "", s |-> "", n |-> 0, d |-> d]

IndexError == [type |-> "IndexError", what |-> "list index out of range",
               id |-> "", typ |-> "", line |-> 0]

\* the loop of bus_params over the flattened children: the last string that is
\* not a literal is the id, the last number is the kv
RECURSIVE bus_scan(_, _, _)
bus_scan(all_items, id_value, kv_value) ==
    IF all_items = <<>> THEN <<id_value, kv_value>>
    ELSE LET item == Head(all_items)
         IN  IF item.tag = "str" /\ item.s \notin {"id=", ",", "kv=", " "}
             THEN bus_scan(Tail(all_items), item, kv_value)
             ELSE IF item.tag = "float"
             THEN bus_scan(Tail(all_items), id_value, item)
             ELSE bus_scan(Tail(all_items), id_value, kv_value)

\* bus_params: [id_value, kv_value], each None when the subtree has no such value
bus_params(children) == bus_scan(children, PyNone, PyNone)

\* the flattened children of a bus_params subtree: complete, or lacking a value
BusChildren ==
    {<<PyStr("id="), PyStr("a"), PyStr(","), PyStr("kv="), PyNum(138)>>,
     <<PyStr("b"), PyNum(138)>>,
     <<PyStr("a")>>,
     <<PyNum(138)>>,
     <<>>}

\* the composite seq_params block and the free-form extension block of a cable
SeqBlock == PyDict(<<KV("R1_ohm_per_km", PyNum(1))>>)

ExtBlock == PyDict(<<KV("note", PyStr("x")), KV("id", PyStr("b"))>>)

\* what follows the five mandatory values among the children of add_cable:
\* each optional block present or absent, an absent one either left out or
\* held as None by the tree builder
CableTails ==
    {<<>>, <<SeqBlock>>, <<ExtBlock>>, <<SeqBlock, ExtBlock>>,
     <<PyNone, PyNone>>, <<SeqBlock, PyNone>>, <<PyNone, ExtBlock>>}

\* the children of add_cable: the mandatory values, all five or without the
\* last, and the optional blocks
CableChildren ==
    {<<i, PyNum(138), PyNum(2), PyNum(600), PyStr("XLPE")>> \o tail :
        i \in {PyStr("a"), PyStr("b")}, tail \in CableTails}
    \cup {<<PyStr("a"), PyNum(138), PyNum(2), PyNum(600)>>}

\* add_cable, for children that hold the five mandatory values
add_cable(c, loc) ==
    LET kvs5 == <<KV("id", c[1]), KV("kv", c[2]), KV("length_km", c[3]),
                  KV("thermal_A", c[4]), KV("insulation", c[5])>>
        seq == 5 < Len(c) /\ c[6].tag = "dict"
        kvs == IF seq THEN DictSet(kvs5, "seq_params", c[6]) ELSE kvs5
        idx == IF seq THEN 6 ELSE 5
        extra == IF idx < Len(c) /\ c[idx + 1].tag = "dict" THEN c[idx + 1].d ELSE <<>>
    IN  Item("CABLE", _merge_front(kvs, extra), loc)

\* ADD_CABLE: c[4] of a shorter child list raises IndexError
ADD_CABLE(c, loc) ==
    IF Len(c) < 5
    THEN At(loc) /\ Raise(IndexError)
    ELSE add_stmt(add_cable(c, loc))

\* ADD_BUS with the outcome of bus_params on the subtree
ADD_BUS_subtree(children, extra, loc) ==
    ADD_BUS(bus_params(children)[1], bus_params(children)[2], extra, loc)

NextAdd ==
    \/ \E ch \in BusChildren, x \in ExtraInputs, loc \in Locs :
          ADD_BUS_subtree(ch, x, loc) /\ UNCHANGED callvars
    \/ \E c \in CableChildren, loc \in Locs :
          ADD_CABLE(c, loc) /\ UNCHANGED callvars
    \/ parse_return /\ UNCHANGED callvars

SpecAdd == Init /\ [][NextAdd]_vars

\* C22: no object of the table has a mandatory attribute absent or None; a
\* statement subtree lacking a mandatory value inserts nothing.
C22_MandatoryPresent ==
    \A o \in Range(tx.objects) :
        \A key \in Range(MandatoryKeys(o.type)) :
            key \in Keys(o.attrs) /\ DictGet(o.attrs, key) # PyNone

\* the two shapes of an ADD_CABLE statement the claim C25 speaks of
ExtOnlyTails == {<<ExtBlock>>, <<PyNone, ExtBlock>>}

BothTails == {<<SeqBlock, ExtBlock>>}

\* C25: an ADD_CABLE with an extension block and no seq_params block gets the
\* extension's non-mandatory keys merged at top level and no seq_params
\* attribute; with both blocks, the seq_params block is stored under
\* 'seq_params' and the extension is merged.
C25_CableBlocks ==
    [][\A c \in CableChildren, loc \in Locs :
          (/\ Len(c) > 5
           /\ SubSeq(c, 6, Len(c)) \in ExtOnlyTails \cup BothTails
           /\ c[1].s \notin ObjectIds(tx.objects)
           /\ ADD_CABLE(c, loc))
          => /\ DictGet(NewAttrs, "note") = PyStr("x")
             /\ DictGet(NewAttrs, "id") = c[1]
             /\ IF SubSeq(c, 6, Len(c)) \in BothTails
                THEN DictGet(NewAttrs, "seq_params") = SeqBlock
                ELSE "seq_params" \notin Keys(NewAttrs)]_vars

----------------------------------------------------------------------------
(* Chains as the transformer stores them: claim C23, under Spec *)

\* C23: every chain stored by the transformer is non-empty and has a Terminal
\* element only at its first or last position.
C23_StoredChainsWellFormed ==
    \A i \in DOMAIN tx.series :
        LET chain == tx.series[i].items
        IN  /\ Len(chain) > 0
            /\ \A j \in 2 .. Len(chain) - 1 : chain[j].tag # "dict"

----------------------------------------------------------------------------
(* Order of the checks within one chain: claim C24, under SpecValidate *)

\* C24: a chain that validate comes to check and that holds both a Terminal at
\* a non-edge index and a mismatching pair raises E.CONNECT.ENDPOINT, wherever
\* the mismatching pair stands.
C24_EndpointBeforeVoltage ==
    Validated =>
        \A i \in DOMAIN ir[1].series :
            (/\ Reached(i)
             /\ MidTerminal(Chain(i))
             /\ \E j \in 1 .. (Len(Chain(i)) - 1) : Mismatch(Chain(i), j))
            => vres.code = "E.CONNECT.ENDPOINT"

\* the mismatching pair is the first pair, the Terminal stands after it
C24_Witness ==
    /\ Validated
    /\ vres.code = "E.CONNECT.ENDPOINT"
    /\ Len(ir[1].series) = 1
    /\ Len(Chain(1)) = 4
    /\ Mismatch(Chain(1), 1)
    /\ Chain(1)[3].tag = "dict"

----------------------------------------------------------------------------
(* Id, key and kind of the registered objects: claim C26, under Spec *)

\* C26: after any sequence of ADD_* statements, with or without an extension
\* block carrying 'id', every object is the only one under its id, its attrs
\* hold that id under 'id', and its type is the kind of the statement that
\* built its attrs (the kind whose mandatory keys the attrs hold).
C26_IdKeyKind ==
    /\ Cardinality(ObjectIds(tx.objects)) = Len(tx.objects)
    /\ \A o \in Range(tx.objects) :
          /\ DictGet(o.attrs, "id") = PyStr(o.id)
          /\ o.type \in Kinds
          /\ Range(MandatoryKeys(o.type)) \subseteq Keys(o.attrs)
          /\ Keys(o.attrs) \ Range(MandatoryKeys(o.type))
                \subseteq UNION {Keys(x) : x \in ExtraInputs}

\* line a was declared with an extension block carrying id = b, then bus b
C26_Witness ==
    /\ Len(tx.objects) = 2
    /\ tx.objects[1].id = "a" /\ tx.objects[1].type = "LINE"
    /\ "note" \in Keys(tx.objects[1].attrs)
    /\ tx.objects[2].id = "b" /\ tx.objects[2].type = "BUS"

----------------------------------------------------------------------------
(* The uniqueness rule and chain reversal: claims C27, C28, under SpecValidate *)

\* C27: on an IR whose object table is a mapping keyed by id, the keys are as
\* many as the entries and validate never raises E.ID.DUP, whatever objects
\* and chains the IR holds.
C27_NoDupOnMapping ==
    Validated =>
        /\ Cardinality(ObjectIds(ir[1].objects)) = Len(ir[1].objects)
        /\ vres.code # "E.ID.DUP"

\* three objects, two of them of the same kind, and a chain naming an id twice
C27_Witness ==
    /\ Validated
    /\ Len(ir[1].objects) = 3
    /\ ir[1].objects[2].type = ir[1].objects[3].type
    /\ Len(ir[1].series) = 1
    /\ Chain(1) = <<PyStr("b"), PyStr("b")>>

\* the chain with its elements in reverse order
Reverse(chain) == [p \in 1 .. Len(chain) |-> chain[Len(chain) + 1 - p]]

\* the IR with the elements of its i-th chain reversed
Reversed(v, i) == [v EXCEPT !.series[i].items = Reverse(@)]

\* C28: validate on the IR with the elements of any one chain reversed passes
\* if and only if it passes on the IR, and fails with the same error code.
C28_ReversalKeepsOutcome ==
    Validated =>
        \A i \in DOMAIN ir[1].series :
            {r.code : r \in ValidateOutcomes(Reversed(ir[1], i))} = {vres.code}

\* a chain that is not its own reverse, with a terminal at one edge and a
\* mismatching pair at the other
C28_Witness ==
    /\ Validated
    /\ vres.code = "E.VOLT.MISMATCH"
    /\ Len(ir[1].series) = 1
    /\ Chain(1) = <<OPEN_END, PyStr("a"), PyStr("c")>>

----------------------------------------------------------------------------
(* SpecKv: validate on directly built IRs that declare two objects, breakers
   or lines, with negative, zero and positive kv: claims C29, C30 *)

KvObjectsA ==
    {Object("a", typ, <<KV("id", PyStr("a")), KV("kv", PyNum(kv))>>) :
        typ \in {"BREAKER", "LINE"}, kv \in {-5, 0, 100}}

KvObjectsB ==
    {Object("b", typ, <<KV("id", PyStr("b")), KV("kv", PyNum(kv))>>) :
        typ \in {"BREAKER", "LINE"}, kv \in {-5, 0, 100}}

KvTables == {<<A, B>> : A \in KvObjectsA, B \in KvObjectsB}

KvChainItems == {PyStr("a"), PyStr("b"), OPEN_END}

InitKv ==
    /\ tx = EmptyIR
    /\ status = "direct"
    /\ err = NoErr
    /\ vres = NotRun
    /\ ir \in {<<[EmptyIR EXCEPT !.objects = t]>> : t \in KvTables}
    /\ text = <<>>
    /\ pc = 1
    /\ peer = NoCall

NextKv ==
    \/ \E chain \in ListsUpTo(KvChainItems, MaxSeries - 1 - SeriesSize(ir[1].series)) :
          append_chain(chain) /\ UNCHANGED callvars
    \/ validate /\ UNCHANGED callvars

SpecKv == InitKv /\ [][NextKv]_vars

\* C29: validate never raises E.VOLT.MISMATCH for an adjacent pair of declared
\* objects, neither BUS nor TRANSFORMER, that have the same kv, be it positive,
\* zero or negative.
C29_EqualKvPasses ==
    Validated => ~(vres.code = "E.VOLT.MISMATCH" /\ vres.kva = vres.kvb)

\* C30: the outcome of validate is a function of the IR: the recorded outcome,
\* with its code and the ids it names, is the only one a run on this IR can
\* have, also when several breakers are unconnected.
C30_OutcomeDetermined ==
    Validated => ValidateOutcomes(ir[1]) = {vres}

====
